---- MODULE Spec2Model ----
(***************************************************************************)
(* A model of the video scene editor: the scene workflows of index.js      *)
(* (detect, split, merge, auto), the silence remover and the thumbnail     *)
(* batch generator.  Every external ffmpeg/ffprobe call is one step that   *)
(* may succeed or fail; the file system is a set of files.  Timestamps are *)
(* whole time units (fixed point), thresholds are hundredths.              *)
(***************************************************************************)
EXTENDS Integers, Sequences, FiniteSets, TLC

\* ------------------------------------------------------------------ bounds
MaxDuration == 4
MaxScenes == 2
MaxSilences == 2
MaxPadding == 2

\* ------------------------------------------------------- program constants
DefaultThreshold == 30
FallbackThreshold == 15
DefaultMergeMinDuration == 2
DefaultAutoMinDuration == 3

Commands == {"detect", "split", "merge", "auto"}
Thresholds == {DefaultThreshold, FallbackThreshold}
MinDurations == {DefaultMergeMinDuration, DefaultAutoMinDuration}
Durations == 1..MaxDuration

\* ------------------------------------------------------------------- state
VARIABLES
  command,        \* args[0] of main
  fileExists,     \* fs.existsSync(videoPath)
  videoDuration,  \* what ffprobe reports for the video
  minDuration,    \* minDuration argument
  threshold,      \* threshold argument
  pc,             \* position of the single thread of control
  engineLog,      \* every command handed to exec, in order
  files,          \* files on disk created by the run
  err,            \* the Error thrown, if any
  timestamps,     \* autoEdit/main local: detected change points
  detectResults,  \* the lists returned by the detectScenes calls, in order
  splitArg,       \* timestamps parameter of splitByScenes
  mergeArg,       \* timestamps parameter of mergeScenes
  duration,       \* local duration of autoEdit / splitByScenes / mergeScenes
  allTimestamps,  \* local allTimestamps of splitByScenes / mergeScenes
  idx,            \* loop index i (0-based, as in the code)
  outputs,        \* splitByScenes local outputs
  clips,          \* autoEdit local clips (main: outputs)
  validSegments,  \* mergeScenes local validSegments
  tempFiles,      \* mergeScenes local tempFiles
  manifest,       \* content of merge_list.txt
  result,         \* value returned to the caller of the workflow
  frames,         \* findBestThumbnailFrame local frames
  bestTime,       \* generateAllThumbnails local bestTime
  selectCount,    \* number of findBestThumbnailFrame calls so far
  candidates,     \* findBestThumbnailFrame parameter candidates
  art,            \* generateAllThumbnails: the sub-artifact being produced
  thumbOutputs,   \* generateAllThumbnails local outputs
  padding,        \* removeSilence parameter padding
  silenceSegments, \* removeSilence local silenceSegments
  audioSegments,  \* removeSilence local audioSegments
  silenceStarts,  \* detectSilence local silenceStarts
  silenceEnds,    \* detectSilence local silenceEnds
  tool,           \* two concurrent runs: the workflow both execute
  runs,           \* two concurrent runs: the locals of each run
  disk            \* two concurrent runs: the shared working directory

\* state of the scene workflows of index.js
sceneVars == <<command, fileExists, videoDuration, minDuration, threshold, pc,
               engineLog, files, err, timestamps, detectResults, splitArg,
               mergeArg, duration, allTimestamps, idx, outputs, clips,
               validSegments, tempFiles, manifest, result>>

\* locals of the scene workflows that the other modules do not have
sceneOnly == <<command, fileExists, minDuration, threshold, timestamps,
               detectResults, splitArg, mergeArg, duration, allTimestamps,
               outputs, clips, validSegments>>

\* locals of thumbnail_generator.js
thumbOnly == <<frames, bestTime, selectCount, candidates, art, thumbOutputs>>

\* locals of silence_detector.js
silenceOnly == <<padding, silenceSegments, audioSegments, silenceStarts,
                 silenceEnds>>

\* state of two runs in one working directory
concurrentOnly == <<tool, runs, disk>>

vars == <<sceneVars, thumbOnly, silenceOnly, concurrentOnly>>

\* ----------------------------------------------------------------- helpers
RECURSIVE SumSeq(_)
SumSeq(s) == IF s = <<>> THEN 0 ELSE Head(s) + SumSeq(Tail(s))

SeqsUpTo(S, n) == UNION {[1..k -> S] : k \in 0..n}

Range(s) == {s[i] : i \in 1..Len(s)}

\* null in the code: the end and duration of a silence the video ends in, a
\* timestamp argument that was not given
Null == -1

\* files are <<kind, index>>
NoFile == <<"none", 0>>
SceneFile(n) == <<"scene", n>>          \* <base>_scene_00n.mp4
TempSceneFile(i) == <<"temp_scene", i>> \* temp_scene_i.mp4
MergeList == <<"merge_list", 0>>        \* merge_list.txt
OutputDir == <<"output_dir", 0>>
OutputFile == <<"merged", 0>>

\* engine commands
ScanCmd(thr) == [op |-> "scan", thr |-> thr, start |-> 0, dur |-> 0, out |-> NoFile]
ProbeCmd == [op |-> "probe", thr |-> 0, start |-> 0, dur |-> 0, out |-> NoFile]
TrimCmd(start, dur, out) ==
  [op |-> "trim", thr |-> 0, start |-> start, dur |-> dur, out |-> out]
ConcatCmd(out) == [op |-> "concat", thr |-> 0, start |-> 0, dur |-> 0, out |-> out]
NoCmd == [op |-> "none", thr |-> 0, start |-> 0, dur |-> 0, out |-> NoFile]

\* errors
NoError == [kind |-> "none", cmd |-> NoCmd]
NotFoundError == [kind |-> "VideoNotFound", cmd |-> NoCmd]
NoValidSegmentsError == [kind |-> "NoValidSegments", cmd |-> NoCmd]
CommandFailed(cmd) == [kind |-> "CommandFailed", cmd |-> cmd]

NoResult == [kind |-> "none"]

\* seeded fault: the boundary list without the closing duration
AllTimestampsNoEnd(ts, d) == <<0>> \o ts

\* [0, ...timestamps, duration]
AllTimestamps(ts, d) == <<0>> \o ts \o <<d>>

\* the segment the loops build at 0-based index i
SegmentAt(all, i) ==
  [start |-> all[i + 1], end |-> all[i + 2], duration |-> all[i + 2] - all[i + 1]]

\* all segments of a boundary list, in loop order
BuildSegments(all) == [i \in 1..(Len(all) - 1) |-> SegmentAt(all, i - 1)]

\* seeded fault: a strict comparison in the filter
KeepSegmentStrict(seg, minDur) == seg.duration > minDur

\* the filter of mergeScenes
KeepSegment(seg, minDur) == seg.duration >= minDur
FilterSegments(all, minDur) ==
  SelectSeq(BuildSegments(all), LAMBDA seg : KeepSegment(seg, minDur))

\* ------------------------------------------------------------ scene editor
\* the locals of the scene workflows when index.js is not what runs
SceneIdle ==
  /\ command = "none"
  /\ fileExists = TRUE
  /\ minDuration = DefaultMergeMinDuration
  /\ threshold = DefaultThreshold
  /\ timestamps = <<>>
  /\ detectResults = <<>>
  /\ splitArg = <<>>
  /\ mergeArg = <<>>
  /\ duration = 0
  /\ allTimestamps = <<>>
  /\ outputs = <<>>
  /\ clips = <<>>
  /\ validSegments = <<>>

\* findBestThumbnailFrame: default of the parameter candidates
Candidates == 10

\* no concurrent runs
ConcurrentIdle ==
  /\ tool = "none"
  /\ runs = <<>>
  /\ disk = <<>>

\* the locals of thumbnail_generator.js when it is not what runs
ThumbIdle ==
  /\ frames = <<>>
  /\ bestTime = 0
  /\ selectCount = 0
  /\ candidates = Candidates
  /\ art = 0
  /\ thumbOutputs = <<>>

\* the locals of silence_detector.js when it is not what runs
SilenceIdle ==
  /\ padding = 0
  /\ silenceStarts = <<>>
  /\ silenceEnds = <<>>
  /\ silenceSegments = <<>>
  /\ audioSegments = <<>>

SceneInit ==
  /\ command \in Commands
  /\ fileExists \in BOOLEAN
  /\ videoDuration \in Durations
  /\ minDuration \in MinDurations
  /\ threshold \in Thresholds
  /\ pc = "main"
  /\ engineLog = <<>>
  /\ files = {}
  /\ err = NoError
  /\ timestamps = <<>>
  /\ detectResults = <<>>
  /\ splitArg = <<>>
  /\ mergeArg = <<>>
  /\ duration = 0
  /\ allTimestamps = <<>>
  /\ idx = 0
  /\ outputs = <<>>
  /\ clips = <<>>
  /\ validSegments = <<>>
  /\ tempFiles = <<>>
  /\ manifest = <<>>
  /\ result = NoResult
  /\ ThumbIdle
  /\ SilenceIdle
  /\ ConcurrentIdle

\* throw: the error reaches main's catch, which exits
Throw(e) ==
  /\ err' = e
  /\ pc' = "failed"

\* main: dispatch on the command
Main ==
  /\ pc = "main"
  /\ pc' = IF command = "auto" THEN "auto_probe" ELSE "detect"
  /\ UNCHANGED <<thumbOnly, silenceOnly, concurrentOnly>>
  /\ UNCHANGED <<command, fileExists, videoDuration, minDuration, threshold,
                 engineLog, files, err, timestamps, detectResults, splitArg,
                 mergeArg, duration, allTimestamps, idx, outputs, clips,
                 validSegments, tempFiles, manifest, result>>

\* autoEdit: const duration = getDuration(videoPath)
AutoGetDuration ==
  /\ pc = "auto_probe"
  /\ engineLog' = Append(engineLog, ProbeCmd)
  /\ \E ok \in BOOLEAN :
       IF ok /\ fileExists
       THEN /\ duration' = videoDuration
            /\ pc' = "detect"
            /\ UNCHANGED err
       ELSE /\ Throw(CommandFailed(ProbeCmd))
            /\ UNCHANGED duration
  /\ UNCHANGED <<thumbOnly, silenceOnly, concurrentOnly>>
  /\ UNCHANGED <<command, fileExists, videoDuration, minDuration, threshold,
                 files, timestamps, detectResults, splitArg, mergeArg,
                 allTimestamps, idx, outputs, clips, validSegments, tempFiles,
                 manifest, result>>

\* detectScenes(videoPath, thr), returning to position ret
DetectScenes(thr, ret) ==
  /\ IF ~fileExists
     THEN /\ Throw(NotFoundError)
          /\ UNCHANGED <<engineLog, timestamps, detectResults>>
     ELSE /\ engineLog' = Append(engineLog, ScanCmd(thr))
          /\ \/ /\ Throw(CommandFailed(ScanCmd(thr)))
                /\ UNCHANGED <<timestamps, detectResults>>
             \/ \E ts \in SeqsUpTo(0..videoDuration, MaxScenes) :
                  /\ timestamps' = ts
                  /\ detectResults' = Append(detectResults, ts)
                  /\ pc' = ret
                  /\ UNCHANGED err
  /\ UNCHANGED <<thumbOnly, silenceOnly, concurrentOnly>>
  /\ UNCHANGED <<command, fileExists, videoDuration, minDuration, threshold,
                 files, splitArg, mergeArg, duration, allTimestamps, idx,
                 outputs, clips, validSegments, tempFiles, manifest, result>>

\* the first detection, at the caller's threshold
Detect ==
  /\ pc = "detect"
  /\ DetectScenes(threshold, "detected")

\* main after detectScenes: print, or call splitByScenes / mergeScenes
MainAfterDetect ==
  /\ pc = "detected"
  /\ command # "auto"
  /\ IF command = "detect"
     THEN /\ result' = [kind |-> "scenes", scenes |-> timestamps]
          /\ pc' = "done"
          /\ UNCHANGED <<splitArg, mergeArg>>
     ELSE IF command = "split"
     THEN /\ splitArg' = timestamps
          /\ pc' = "split"
          /\ UNCHANGED <<result, mergeArg>>
     ELSE /\ mergeArg' = timestamps
          /\ pc' = "merge"
          /\ UNCHANGED <<result, splitArg>>
  /\ UNCHANGED <<thumbOnly, silenceOnly, concurrentOnly>>
  /\ UNCHANGED <<command, fileExists, videoDuration, minDuration, threshold,
                 engineLog, files, err, timestamps, detectResults, duration,
                 allTimestamps, idx, outputs, clips, validSegments, tempFiles,
                 manifest>>

\* seeded fault: a retry also after a single detected change point
NeedsRetryShort(ts) == Len(ts) <= 1

\* autoEdit: the condition of the retry, timestamps.length === 0
NeedsRetry(ts) == Len(ts) = 0

\* autoEdit: if (timestamps.length === 0) retry at the lower threshold
AutoCheckTimestamps ==
  /\ pc = "detected"
  /\ command = "auto"
  /\ pc' = IF NeedsRetry(timestamps) THEN "detect_retry" ELSE "auto_split"
  /\ UNCHANGED <<thumbOnly, silenceOnly, concurrentOnly>>
  /\ UNCHANGED <<command, fileExists, videoDuration, minDuration, threshold,
                 engineLog, files, err, timestamps, detectResults, splitArg,
                 mergeArg, duration, allTimestamps, idx, outputs, clips,
                 validSegments, tempFiles, manifest, result>>

\* autoEdit: timestamps = detectScenes(videoPath, 0.15)
DetectFallback ==
  /\ pc = "detect_retry"
  /\ DetectScenes(FallbackThreshold, "auto_split")

\* autoEdit: const clips = splitByScenes(videoPath, timestamps, outputDir)
AutoCallSplit ==
  /\ pc = "auto_split"
  /\ splitArg' = timestamps
  /\ pc' = "split"
  /\ UNCHANGED <<thumbOnly, silenceOnly, concurrentOnly>>
  /\ UNCHANGED <<command, fileExists, videoDuration, minDuration, threshold,
                 engineLog, files, err, timestamps, detectResults, mergeArg,
                 duration, allTimestamps, idx, outputs, clips, validSegments,
                 tempFiles, manifest, result>>

\* splitByScenes: mkdir, getDuration, build the boundary list
SplitStart ==
  /\ pc = "split"
  /\ files' = files \cup {OutputDir}
  /\ engineLog' = Append(engineLog, ProbeCmd)
  /\ \/ /\ Throw(CommandFailed(ProbeCmd))
        /\ UNCHANGED <<duration, allTimestamps, idx, outputs>>
     \/ /\ duration' = videoDuration
        /\ allTimestamps' = AllTimestamps(splitArg, videoDuration)
        /\ idx' = 0
        /\ outputs' = <<>>
        /\ pc' = "split_loop"
        /\ UNCHANGED err
  /\ UNCHANGED <<thumbOnly, silenceOnly, concurrentOnly>>
  /\ UNCHANGED <<command, fileExists, videoDuration, minDuration, threshold,
                 timestamps, detectResults, splitArg, mergeArg, clips,
                 validSegments, tempFiles, manifest, result>>

\* seeded fault: clip files numbered from the 0-based index
SplitTrimCmdZeroBased(all, i) ==
  TrimCmd(SegmentAt(all, i).start, SegmentAt(all, i).duration, SceneFile(i))

\* the trim command of splitByScenes at 0-based index i
SplitTrimCmd(all, i) ==
  TrimCmd(SegmentAt(all, i).start, SegmentAt(all, i).duration, SceneFile(i + 1))

\* splitByScenes: one iteration of the for loop
SplitTrim ==
  /\ pc = "split_loop"
  /\ idx < Len(allTimestamps) - 1
  /\ LET cmd == SplitTrimCmd(allTimestamps, idx) IN
       /\ engineLog' = Append(engineLog, cmd)
       /\ \/ /\ Throw(CommandFailed(cmd))
             /\ UNCHANGED <<files, outputs, idx>>
          \/ /\ files' = files \cup {cmd.out}
             /\ outputs' = Append(outputs, cmd.out)
             /\ idx' = idx + 1
             /\ UNCHANGED <<pc, err>>
  /\ UNCHANGED <<thumbOnly, silenceOnly, concurrentOnly>>
  /\ UNCHANGED <<command, fileExists, videoDuration, minDuration, threshold,
                 timestamps, detectResults, splitArg, mergeArg, duration,
                 allTimestamps, clips, validSegments, tempFiles, manifest,
                 result>>

\* splitByScenes: return outputs (to main or to autoEdit)
SplitReturn ==
  /\ pc = "split_loop"
  /\ ~(idx < Len(allTimestamps) - 1)
  /\ clips' = outputs
  /\ IF command = "split"
     THEN /\ result' = [kind |-> "clips", clips |-> outputs]
          /\ pc' = "done"
     ELSE /\ pc' = "auto_merge"
          /\ UNCHANGED result
  /\ UNCHANGED <<thumbOnly, silenceOnly, concurrentOnly>>
  /\ UNCHANGED <<command, fileExists, videoDuration, minDuration, threshold,
                 engineLog, files, err, timestamps, detectResults, splitArg,
                 mergeArg, duration, allTimestamps, idx, outputs,
                 validSegments, tempFiles, manifest>>

\* autoEdit: const finalFile = mergeScenes(videoPath, timestamps, ...)
AutoCallMerge ==
  /\ pc = "auto_merge"
  /\ mergeArg' = timestamps
  /\ pc' = "merge"
  /\ UNCHANGED <<thumbOnly, silenceOnly, concurrentOnly>>
  /\ UNCHANGED <<command, fileExists, videoDuration, minDuration, threshold,
                 engineLog, files, err, timestamps, detectResults, splitArg,
                 duration, allTimestamps, idx, outputs, clips, validSegments,
                 tempFiles, manifest, result>>

\* seeded fault: an empty-result check that never fires
NoSegmentsLeftNever(valid) == Len(valid) < 0

\* mergeScenes: the condition of the throw, validSegments.length === 0
NoSegmentsLeft(valid) == Len(valid) = 0

\* mergeScenes: getDuration, build the boundary list, filter, throw if empty
MergeStart ==
  /\ pc = "merge"
  /\ engineLog' = Append(engineLog, ProbeCmd)
  /\ \/ /\ Throw(CommandFailed(ProbeCmd))
        /\ UNCHANGED <<duration, allTimestamps, validSegments, tempFiles, idx>>
     \/ LET all == AllTimestamps(mergeArg, videoDuration)
            valid == FilterSegments(all, minDuration) IN
          /\ duration' = videoDuration
          /\ allTimestamps' = all
          /\ validSegments' = valid
          /\ tempFiles' = <<>>
          /\ idx' = 0
          /\ IF NoSegmentsLeft(valid)
             THEN Throw(NoValidSegmentsError)
             ELSE /\ pc' = "merge_loop"
                  /\ UNCHANGED err
  /\ UNCHANGED <<thumbOnly, silenceOnly, concurrentOnly>>
  /\ UNCHANGED <<command, fileExists, videoDuration, minDuration, threshold,
                 files, timestamps, detectResults, splitArg, mergeArg,
                 outputs, clips, manifest, result>>

\* seeded fault: the manifest lists the clips last to first
ManifestLinesReversed(temps) ==
  [i \in 1..Len(temps) |-> temps[Len(temps) + 1 - i]]

\* the lines of the concat manifest: tempFiles.map(...), in array order
ManifestLines(temps) == temps

\* the trim command of mergeScenes for the i-th (0-based) valid segment
MergeTrimCmd(valid, i) ==
  TrimCmd(valid[i + 1].start, valid[i + 1].duration, TempSceneFile(i))

\* mergeScenes: one callback of validSegments.forEach
MergeTrim ==
  /\ pc = "merge_loop"
  /\ idx < Len(validSegments)
  /\ LET cmd == MergeTrimCmd(validSegments, idx) IN
       /\ engineLog' = Append(engineLog, cmd)
       /\ \/ /\ Throw(CommandFailed(cmd))
             /\ UNCHANGED <<files, tempFiles, idx>>
          \/ /\ files' = files \cup {cmd.out}
             /\ tempFiles' = Append(tempFiles, cmd.out)
             /\ idx' = idx + 1
             /\ UNCHANGED <<pc, err>>
  /\ UNCHANGED <<thumbOnly, silenceOnly, concurrentOnly>>
  /\ UNCHANGED <<command, fileExists, videoDuration, minDuration, threshold,
                 timestamps, detectResults, splitArg, mergeArg, duration,
                 allTimestamps, outputs, clips, validSegments, manifest,
                 result>>

\* mergeScenes: write merge_list.txt and run the concat command
MergeConcat ==
  /\ pc = "merge_loop"
  /\ ~(idx < Len(validSegments))
  /\ manifest' = ManifestLines(tempFiles)
  /\ engineLog' = Append(engineLog, ConcatCmd(OutputFile))
  /\ \/ /\ Throw(CommandFailed(ConcatCmd(OutputFile)))
        /\ files' = files \cup {MergeList}
     \/ /\ files' = files \cup {MergeList, OutputFile}
        /\ pc' = "merge_cleanup"
        /\ UNCHANGED err
  /\ UNCHANGED <<thumbOnly, silenceOnly, concurrentOnly>>
  /\ UNCHANGED <<command, fileExists, videoDuration, minDuration, threshold,
                 timestamps, detectResults, splitArg, mergeArg, duration,
                 allTimestamps, idx, outputs, clips, validSegments, tempFiles,
                 result>>

\* what the cleanup of mergeScenes unlinks
MergeCleanupSet(temps) == Range(temps) \cup {MergeList}

\* mergeScenes: cleanup and return outputFile (to main or to autoEdit)
MergeCleanup ==
  /\ pc = "merge_cleanup"
  /\ files' = files \ MergeCleanupSet(tempFiles)
  /\ IF command = "merge"
     THEN /\ result' = [kind |-> "mergedFile", mergedFile |-> OutputFile]
          /\ pc' = "done"
     ELSE /\ pc' = "auto_return"
          /\ UNCHANGED result
  /\ UNCHANGED <<thumbOnly, silenceOnly, concurrentOnly>>
  /\ UNCHANGED <<command, fileExists, videoDuration, minDuration, threshold,
                 engineLog, err, timestamps, detectResults, splitArg,
                 mergeArg, duration, allTimestamps, idx, outputs, clips,
                 validSegments, tempFiles, manifest>>

\* seeded fault: a summary counting the clips as scenes
AutoSummaryClipCount(d, ts, cl) ==
  [kind |-> "summary",
   originalDuration |-> d,
   scenesDetected |-> Len(cl),
   clipsCreated |-> Len(cl),
   clipsPath |-> OutputDir,
   mergedFile |-> OutputFile,
   sceneTimestamps |-> ts]

\* the summary record autoEdit returns
AutoSummary(d, ts, cl) ==
  [kind |-> "summary",
   originalDuration |-> d,
   scenesDetected |-> Len(ts),
   clipsCreated |-> Len(cl),
   clipsPath |-> OutputDir,
   mergedFile |-> OutputFile,
   sceneTimestamps |-> ts]

\* autoEdit: return the summary
AutoReturn ==
  /\ pc = "auto_return"
  /\ result' = AutoSummary(videoDuration, timestamps, clips)
  /\ pc' = "done"
  /\ UNCHANGED <<thumbOnly, silenceOnly, concurrentOnly>>
  /\ UNCHANGED <<command, fileExists, videoDuration, minDuration, threshold,
                 engineLog, files, err, timestamps, detectResults, splitArg,
                 mergeArg, duration, allTimestamps, idx, outputs, clips,
                 validSegments, tempFiles, manifest>>

SceneNext ==
  \/ Main
  \/ AutoGetDuration
  \/ Detect
  \/ MainAfterDetect
  \/ AutoCheckTimestamps
  \/ DetectFallback
  \/ AutoCallSplit
  \/ SplitStart
  \/ SplitTrim
  \/ SplitReturn
  \/ AutoCallMerge
  \/ MergeStart
  \/ MergeTrim
  \/ MergeConcat
  \/ MergeCleanup
  \/ AutoReturn

Spec == SceneInit /\ [][SceneNext]_vars


\* ------------------------------------------------- claims: scene workflows
StrictlyIncreasingIn(ts, d) ==
  /\ \A i \in 1..Len(ts) : 0 < ts[i] /\ ts[i] < d
  /\ \A i \in 1..(Len(ts) - 1) : ts[i] < ts[i + 1]

SplitTrims ==
  SelectSeq(engineLog, LAMBDA c : c.op = "trim" /\ c.out[1] = "scene")
MergeTrims ==
  SelectSeq(engineLog, LAMBDA c : c.op = "trim" /\ c.out[1] = "temp_scene")
Scans == SelectSeq(engineLog, LAMBDA c : c.op = "scan")

\* positions at which allTimestamps is the boundary list of splitByScenes
AtSplit == pc \in {"split_loop", "auto_merge"} \/ (pc = "done" /\ command = "split")
\* positions at which allTimestamps is the boundary list of mergeScenes
AtMerge ==
  \/ pc \in {"merge_loop", "merge_cleanup", "auto_return"}
  \/ (pc = "done" /\ command \in {"merge", "auto"})

ContiguousCover(segs, n, d) ==
  /\ Len(segs) = n + 1
  /\ segs[1].start = 0
  /\ segs[Len(segs)].end = d
  /\ \A i \in 2..Len(segs) : segs[i].start = segs[i - 1].end
  /\ SumSeq([i \in 1..Len(segs) |-> segs[i].duration]) = d

\* C1: for a strictly increasing change-point list inside (0, D), the
\* boundary list [0, ...timestamps, D] of splitByScenes and of mergeScenes
\* gives len(timestamps)+1 segments, each starting where the previous one
\* ends, the first at 0, the last ending at D, with durations summing to D;
\* the trims splitByScenes issues are those segments, in order.
C1_SegmentsCoverVideo ==
  /\ (AtSplit /\ StrictlyIncreasingIn(splitArg, videoDuration)) =>
       /\ ContiguousCover(BuildSegments(allTimestamps), Len(splitArg), videoDuration)
       /\ Len(SplitTrims) = idx
       /\ \A k \in 1..idx :
            /\ SplitTrims[k].start = BuildSegments(allTimestamps)[k].start
            /\ SplitTrims[k].dur = BuildSegments(allTimestamps)[k].duration
       /\ (pc # "split_loop") => idx = Len(splitArg) + 1
  /\ (AtMerge /\ StrictlyIncreasingIn(mergeArg, videoDuration)) =>
       ContiguousCover(BuildSegments(allTimestamps), Len(mergeArg), videoDuration)

C1_Witness ==
  /\ command = "auto"
  /\ pc = "merge_cleanup"
  /\ Len(mergeArg) = 2
  /\ StrictlyIncreasingIn(mergeArg, videoDuration)
  /\ Len(SplitTrims) = 3

\* the j-th smallest element of a set of indices
NthOf(S, j) == CHOOSE x \in S : Cardinality({y \in S : y < x}) = j - 1

KeptIndices(segs, minDur) == {i \in 1..Len(segs) : segs[i].duration >= minDur}

\* C2: the segments mergeScenes keeps are exactly the segments of duration
\* >= minDuration, in their original order (an order-preserving subsequence
\* of the full segment list, none shorter than minDuration, none missing),
\* and the merge trims are issued for them in that order.
C2_MergeKeepsLongSegments ==
  AtMerge =>
    LET segs == BuildSegments(allTimestamps)
        kept == KeptIndices(segs, minDuration) IN
      /\ Len(validSegments) = Cardinality(kept)
      /\ \A j \in 1..Len(validSegments) :
           /\ validSegments[j] = segs[NthOf(kept, j)]
           /\ validSegments[j].duration >= minDuration
      /\ \A k \in 1..Len(MergeTrims) :
           /\ k <= Len(validSegments)
           /\ MergeTrims[k].start = validSegments[k].start
           /\ MergeTrims[k].dur = validSegments[k].duration

C2_Witness ==
  /\ pc = "merge_cleanup"
  /\ Len(validSegments) = 2
  /\ Len(allTimestamps) = 4
  /\ \E i \in 1..3 : BuildSegments(allTimestamps)[i].duration = minDuration
  /\ BuildSegments(allTimestamps)[2].duration < minDuration

AllSegmentsShort ==
  \A i \in 1..(Len(allTimestamps) - 1) :
    BuildSegments(allTimestamps)[i].duration < minDuration

\* C3: when every segment is shorter than minDuration, mergeScenes throws
\* the empty-result error, and at that point it has issued no trim to a
\* temporary clip and no concatenate command and has created no temporary
\* clip and no merge_list.txt.
C3_EmptyResultBeforeAnyWork ==
  /\ (err = NoValidSegmentsError) =>
       /\ pc = "failed"
       /\ AllSegmentsShort
       /\ Len(MergeTrims) = 0
       /\ \A i \in 1..Len(engineLog) : engineLog[i].op # "concat"
       /\ \A f \in files : f[1] \notin {"temp_scene", "merge_list"}
       /\ manifest = <<>>
  /\ pc \in {"merge_loop", "merge_cleanup", "auto_return"} => ~AllSegmentsShort

C3_Witness ==
  /\ err = NoValidSegmentsError
  /\ Len(allTimestamps) = 4
  /\ command = "auto"

\* C4: every terminal state of a run, successful or failed, has no
\* temp_scene_* file and no merge_list.txt on disk.
C4_NoTempFilesAtExit ==
  pc \in {"done", "failed"} =>
    \A f \in files : f[1] \notin {"temp_scene", "merge_list"}

\* C5: when the video file is missing, no engine command is ever invoked
\* and the run fails with the missing-file error.
C5_MissingFileBeforeEngine ==
  ~fileExists =>
    /\ engineLog = <<>>
    /\ pc = "failed" => err = NotFoundError

AfterDetection ==
  pc \in {"auto_split", "split", "split_loop", "auto_merge", "merge",
          "merge_loop", "merge_cleanup", "auto_return", "done"}

\* C6: autoEdit detects first at the caller's threshold; it detects a second
\* time, at 0.15, exactly when the first detection returned no change point;
\* it never detects more than twice; when the second detection is empty too
\* it goes on to split with the single segment [0, D) and does not fail
\* because nothing was detected.
C6_AutoRetriesOnce ==
  command = "auto" =>
    /\ Len(Scans) <= 2
    /\ Len(Scans) >= 1 => Scans[1].thr = threshold
    /\ Len(Scans) = 2 =>
         /\ Scans[2].thr = FallbackThreshold
         /\ Len(detectResults) >= 1
         /\ detectResults[1] = <<>>
    /\ (AfterDetection /\ detectResults[1] = <<>>) => Len(Scans) = 2
    /\ (Len(detectResults) = 2 /\ detectResults[2] = <<>>) =>
         /\ timestamps = <<>>
         /\ pc \in {"auto_split", "split"} => err = NoError
         /\ pc = "failed" =>
              \/ err = NoValidSegmentsError
              \/ (err.kind = "CommandFailed" /\ err.cmd.op \in {"probe", "trim", "concat"})
         /\ pc = "split_loop" =>
              BuildSegments(allTimestamps) =
                <<[start |-> 0, end |-> videoDuration, duration |-> videoDuration]>>

C6_Witness ==
  /\ command = "auto"
  /\ Len(detectResults) = 2
  /\ detectResults[2] = <<>>
  /\ pc = "auto_merge"
  /\ Len(SplitTrims) = 1

\* C7: the summary autoEdit returns has scenesDetected = the length of
\* sceneTimestamps and clipsCreated = scenesDetected + 1; split and merge
\* were given the same timestamp list, so every segment merge kept is the
\* time range of one of the split clips.
C7_AutoSummaryConsistent ==
  (command = "auto" /\ pc = "done") =>
    /\ result.kind = "summary"
    /\ result.scenesDetected = Len(result.sceneTimestamps)
    /\ result.clipsCreated = result.scenesDetected + 1
    /\ result.clipsCreated = Len(SplitTrims)
    /\ splitArg = mergeArg
    /\ result.sceneTimestamps = splitArg
    /\ \A j \in 1..Len(validSegments) :
         \E k \in 1..Len(SplitTrims) :
           /\ SplitTrims[k].start = validSegments[j].start
           /\ SplitTrims[k].dur = validSegments[j].duration
           /\ SplitTrims[k].out \in files

C7_Witness ==
  /\ command = "auto"
  /\ pc = "done"
  /\ result.kind = "summary"
  /\ result.scenesDetected = 2
  /\ Len(validSegments) = 1

\* C8: when the trim of segment k fails in splitByScenes, no engine command
\* is issued after it (no trim for a later segment), the clips of segments
\* 1..k-1 stay on disk, and the error names the failing command, whose
\* output file carries the index k.
C8_SplitAbortsAtFailedTrim ==
  (pc = "failed" /\ err.kind = "CommandFailed" /\ err.cmd.op = "trim"
     /\ err.cmd.out[1] = "scene") =>
    LET k == err.cmd.out[2] IN
      /\ k = idx + 1
      /\ engineLog[Len(engineLog)] = err.cmd
      /\ Len(SplitTrims) = k
      /\ \A j \in 1..Len(SplitTrims) : SplitTrims[j].out = SceneFile(j)
      /\ \A j \in 1..(k - 1) : SceneFile(j) \in files
      /\ SceneFile(k) \notin files
      /\ err.cmd.start = allTimestamps[k]
      /\ err.cmd.dur = allTimestamps[k + 1] - allTimestamps[k]

C8_Witness ==
  /\ pc = "failed"
  /\ err.kind = "CommandFailed"
  /\ err.cmd.out = SceneFile(2)
  /\ Len(allTimestamps) = 4
  /\ SceneFile(1) \in files


\* ---------------------------------------------------- thumbnail_generator
\* Times of this module are in units of 1/ThumbScale of the scene time
\* unit, so that 10%, 1/9 and 1/18 of a duration are whole numbers.
ThumbScale == 900
StoryboardRows == 3
StoryboardCols == 3
TimelineCount == 9

Abs(x) == IF x < 0 THEN 0 - x ELSE x
Min(a, b) == IF a <= b THEN a ELSE b
Max(a, b) == IF a >= b THEN a ELSE b

\* info.duration, in thumbnail units
InfoDuration == ThumbScale * videoDuration

ThumbDir == <<"thumbnails", 0>>
ThumbFile(w) == <<"thumb", w>>
StoryboardFile == <<"storyboard", 0>>
TimelineFile == <<"timeline", 0>>
GifFile(k) == <<"preview", k>>
FirstFile == <<"first", 0>>
LastFile == <<"last", 0>>
TempThumbDir == <<"temp_thumbnails", 0>>
TempThumbFile(i) == <<"temp_thumb", i>>
TempTimelineDir == <<"temp_timestamped", 0>>
TempFrameFile(i) == <<"temp_frame", i>>
NullPath == <<"null", 0>>

InfoCmd == [op |-> "info", thr |-> 0, start |-> 0, dur |-> 0, out |-> NoFile]
FrameCmd(t, out) == [op |-> "frame", thr |-> 0, start |-> t, dur |-> 0, out |-> out]
StoryboardCmd(out) ==
  [op |-> "storyboard", thr |-> 0, start |-> 0, dur |-> 0, out |-> out]
GridCmd(out) == [op |-> "grid", thr |-> 0, start |-> 0, dur |-> 0, out |-> out]
GifCmd(t, d, out) == [op |-> "gif", thr |-> 0, start |-> t, dur |-> d, out |-> out]

\* an execSync that is not inside a try block
ExecError(cmd) == [kind |-> "ExecError", cmd |-> cmd]

\* seeded fault: the sampling window starts at its midpoint
StartTimeMidpoint(d) == d \div 2

\* findBestThumbnailFrame: startTime and endTime for a video of duration d
StartTime(d) == d \div 10
EndTime(d) == (9 * d) \div 10

\* seeded fault: the candidates are spread over the whole video
CandidateTimeWholeVideo(d, n, i) == i * (d \div n)

\* findBestThumbnailFrame: the timestamp of candidate i of n
CandidateTime(d, n, i) ==
  StartTime(d) + i * ((EndTime(d) - StartTime(d)) \div n)

\* evaluateFrameQuality for a video of duration d, as a multiple of 1/d:
\* 50 + (20 - |t/d - 0.5| * 40), less 20 outside the 10%-90% window,
\* clamped to [0, 100]
FrameScore(t, d) ==
  LET timeBonus == 20 * d - 20 * Abs(2 * t - d)
      penalty == IF 10 * t < d \/ 10 * t > 9 * d THEN 20 * d ELSE 0
  IN Max(0, Min(100 * d, 50 * d + timeBonus - penalty))

\* evaluateFrameQuality when getVideoInfo throws inside its try block
BaseScore(d) == 50 * d

\* seeded fault: the last of the frames with the highest score
BestFrameLast(fs) ==
  fs[CHOOSE i \in 1..Len(fs) :
       /\ \A j \in 1..Len(fs) : fs[j].score <= fs[i].score
       /\ \A j \in (i + 1)..Len(fs) : fs[j].score < fs[i].score]

\* frames.sort((a, b) => b.score - a.score)[0]: the sort is stable, so the
\* first frame that no frame beats
BestFrame(fs) ==
  fs[CHOOSE i \in 1..Len(fs) :
       /\ \A j \in 1..Len(fs) : fs[j].score <= fs[i].score
       /\ \A j \in 1..(i - 1) : fs[j].score < fs[i].score]

Labels == {"thumbnail_1920", "thumbnail_1280", "thumbnail_640", "storyboard",
           "timestamped", "gif_start", "gif_middle", "gif_end", "first_frame",
           "last_frame"}

\* the sub-artifacts of generateAllThumbnails, in the order of its calls
Plan(best, d) ==
  <<[label |-> "thumbnail_1920", kind |-> "still", time |-> best, out |-> ThumbFile(1920)],
    [label |-> "thumbnail_1280", kind |-> "still", time |-> best, out |-> ThumbFile(1280)],
    [label |-> "thumbnail_640", kind |-> "still", time |-> best, out |-> ThumbFile(640)],
    [label |-> "storyboard", kind |-> "storyboard", time |-> 0, out |-> StoryboardFile],
    [label |-> "timestamped", kind |-> "timeline", time |-> 0, out |-> TimelineFile],
    [label |-> "gif_start", kind |-> "gif", time |-> (2 * d) \div 10, out |-> GifFile(1)],
    [label |-> "gif_middle", kind |-> "gif", time |-> (5 * d) \div 10, out |-> GifFile(2)],
    [label |-> "gif_end", kind |-> "gif", time |-> (8 * d) \div 10, out |-> GifFile(3)],
    [label |-> "first_frame", kind |-> "still", time |-> 0, out |-> FirstFile],
    [label |-> "last_frame", kind |-> "still", time |-> d - ThumbScale \div 10, out |-> LastFile]>>

CurrentArtifact == Plan(bestTime, InfoDuration)[art]

ThumbInit ==
  /\ videoDuration \in Durations
  /\ pc = "all_start"
  /\ engineLog = <<>>
  /\ files = {}
  /\ err = NoError
  /\ result = NoResult
  /\ idx = 0
  /\ tempFiles = <<>>
  /\ manifest = <<>>
  /\ SceneIdle
  /\ ThumbIdle
  /\ SilenceIdle
  /\ ConcurrentIdle

\* the next sub-artifact of generateAllThumbnails
Advance ==
  /\ art' = art + 1
  /\ pc' = "artifact"

\* generateAllThumbnails: mkdir, getVideoInfo
AllStart ==
  /\ pc = "all_start"
  /\ files' = files \cup {ThumbDir}
  /\ engineLog' = Append(engineLog, InfoCmd)
  /\ \/ Throw(ExecError(InfoCmd))
     \/ /\ pc' = "best_info"
        /\ UNCHANGED err
  /\ UNCHANGED <<sceneOnly, silenceOnly, concurrentOnly, thumbOnly, videoDuration, result, idx, tempFiles, manifest>>

\* findBestThumbnailFrame: getVideoInfo, the sampling window
BestInfo ==
  /\ pc = "best_info"
  /\ selectCount' = selectCount + 1
  /\ engineLog' = Append(engineLog, InfoCmd)
  /\ \/ /\ Throw(ExecError(InfoCmd))
        /\ UNCHANGED frames
     \/ /\ frames' = <<>>
        /\ pc' = "best_loop"
        /\ UNCHANGED err
  /\ UNCHANGED <<sceneOnly, silenceOnly, concurrentOnly, bestTime, candidates, art, thumbOutputs,
                 videoDuration, files, result, idx, tempFiles, manifest>>

\* findBestThumbnailFrame: one iteration, with evaluateFrameQuality, whose
\* own getVideoInfo is inside a try block
BestEvaluate ==
  /\ pc = "best_loop"
  /\ Len(frames) < candidates
  /\ engineLog' = Append(engineLog, InfoCmd)
  /\ LET t == CandidateTime(InfoDuration, candidates, Len(frames)) IN
       \E ok \in BOOLEAN :
         frames' = Append(frames,
                     [timestamp |-> t,
                      score |-> IF ok THEN FrameScore(t, InfoDuration)
                                ELSE BaseScore(InfoDuration)])
  /\ UNCHANGED <<sceneOnly, silenceOnly, concurrentOnly, bestTime, selectCount, candidates, art, thumbOutputs,
                 videoDuration, pc, files, err, result, idx, tempFiles, manifest>>

\* findBestThumbnailFrame: sort and return (its frames go out of scope);
\* generateAllThumbnails: bestTime
BestPick ==
  /\ pc = "best_loop"
  /\ ~(Len(frames) < candidates)
  /\ bestTime' = BestFrame(frames).timestamp
  /\ frames' = <<>>
  /\ thumbOutputs' = <<>>
  /\ art' = 1
  /\ pc' = "artifact"
  /\ UNCHANGED <<sceneOnly, silenceOnly, concurrentOnly, selectCount, candidates, videoDuration, engineLog,
                 files, err, result, idx, tempFiles, manifest>>

\* outputs[label] = value
SetOutput(label, value) ==
  thumbOutputs' = Append(thumbOutputs, [label |-> label, path |-> value])

\* seeded fault: a truthiness test, which takes timestamp 0 as not given
TimestampGivenTruthy(ts) == ts # Null /\ ts # 0

\* generateThumbnail: timestamp !== null
TimestampGiven(ts) == ts # Null

\* the frames findBestThumbnailFrame collects when oks[i] tells whether the
\* probe of candidate i succeeded
SampledFrames(d, n, oks) ==
  [i \in 1..n |->
     [timestamp |-> CandidateTime(d, n, i - 1),
      score |-> IF oks[i] THEN FrameScore(CandidateTime(d, n, i - 1), d)
                ELSE BaseScore(d)]]

\* the probes of one findBestThumbnailFrame call with n candidates
BestProbes(n) == [i \in 1..(n + 1) |-> InfoCmd]

\* generateThumbnail: the given timestamp, or the best frame when it is
\* null (a whole findBestThumbnailFrame call); then the extraction
GenerateThumbnail ==
  /\ pc = "artifact"
  /\ art <= Len(Plan(bestTime, InfoDuration))
  /\ CurrentArtifact.kind = "still"
  /\ LET a == CurrentArtifact IN
       \E oks \in IF TimestampGiven(a.time)
                  THEN {<<>>}
                  ELSE [1..Candidates -> BOOLEAN] :
         LET time == IF TimestampGiven(a.time)
                     THEN a.time
                     ELSE BestFrame(SampledFrames(InfoDuration, Candidates,
                                                  oks)).timestamp
             cmd == FrameCmd(time, a.out) IN
           /\ selectCount' = IF TimestampGiven(a.time) THEN selectCount
                              ELSE selectCount + 1
           /\ engineLog' = IF TimestampGiven(a.time)
                            THEN Append(engineLog, cmd)
                            ELSE Append(engineLog \o BestProbes(Candidates), cmd)
           /\ \/ /\ Throw(ExecError(cmd))
                 /\ UNCHANGED <<files, thumbOutputs, art>>
              \/ /\ files' = files \cup {a.out}
                 /\ SetOutput(a.label, a.out)
                 /\ Advance
                 /\ UNCHANGED err
  /\ UNCHANGED <<sceneOnly, silenceOnly, concurrentOnly, frames, bestTime,
                 candidates, videoDuration, result, idx, tempFiles, manifest>>

\* generateStoryboard: getVideoInfo
StoryboardInfo ==
  /\ pc = "artifact"
  /\ art <= Len(Plan(bestTime, InfoDuration))
  /\ CurrentArtifact.kind = "storyboard"
  /\ engineLog' = Append(engineLog, InfoCmd)
  /\ \/ Throw(ExecError(InfoCmd))
     \/ /\ pc' = "storyboard_complex"
        /\ UNCHANGED err
  /\ UNCHANGED <<sceneOnly, silenceOnly, concurrentOnly, thumbOnly, videoDuration, files, result, idx,
                 tempFiles, manifest>>

\* generateStoryboard: the xstack command, inside a try block
StoryboardComplex ==
  /\ pc = "storyboard_complex"
  /\ engineLog' = Append(engineLog, StoryboardCmd(StoryboardFile))
  /\ \/ /\ files' = files \cup {StoryboardFile}
        /\ SetOutput("storyboard", StoryboardFile)
        /\ Advance
     \/ /\ pc' = "simple_info"
        /\ UNCHANGED <<files, thumbOutputs, art>>
  /\ UNCHANGED <<sceneOnly, silenceOnly, concurrentOnly, frames, bestTime, selectCount, candidates, videoDuration, err,
                 result, idx, tempFiles, manifest>>

\* generateSimpleStoryboard: getVideoInfo, mkdir temp_thumbnails
SimpleInfo ==
  /\ pc = "simple_info"
  /\ engineLog' = Append(engineLog, InfoCmd)
  /\ \/ /\ Throw(ExecError(InfoCmd))
        /\ UNCHANGED <<files, idx, tempFiles>>
     \/ /\ files' = files \cup {TempThumbDir}
        /\ idx' = 0
        /\ tempFiles' = <<>>
        /\ pc' = "simple_loop"
        /\ UNCHANGED err
  /\ UNCHANGED <<sceneOnly, silenceOnly, concurrentOnly, thumbOnly, videoDuration, result, manifest>>

\* the time of grid frame i of n: duration * ((i + 0.5) / n)
GridTime(d, n, i) == (d * (2 * i + 1)) \div (2 * n)

\* generateSimpleStoryboard: one frame extraction
SimpleExtract ==
  /\ pc = "simple_loop"
  /\ idx < StoryboardRows * StoryboardCols
  /\ LET cmd == FrameCmd(GridTime(InfoDuration, StoryboardRows * StoryboardCols, idx),
                         TempThumbFile(idx)) IN
       /\ engineLog' = Append(engineLog, cmd)
       /\ \/ /\ Throw(ExecError(cmd))
             /\ UNCHANGED <<files, idx, tempFiles>>
          \/ /\ files' = files \cup {cmd.out}
             /\ tempFiles' = Append(tempFiles, cmd.out)
             /\ idx' = idx + 1
             /\ UNCHANGED <<pc, err>>
  /\ UNCHANGED <<sceneOnly, silenceOnly, concurrentOnly, thumbOnly, videoDuration, result, manifest>>

\* generateSimpleStoryboard: the tile command in a try block, the cleanup,
\* and the return of the path or null
SimpleTile ==
  /\ pc = "simple_loop"
  /\ ~(idx < StoryboardRows * StoryboardCols)
  /\ engineLog' = Append(engineLog, GridCmd(StoryboardFile))
  /\ \E ok \in BOOLEAN :
       /\ files' = ((files \ (Range(tempFiles) \cup {TempThumbDir}))
                      \cup (IF ok THEN {StoryboardFile} ELSE {}))
       /\ SetOutput("storyboard", IF ok THEN StoryboardFile ELSE NullPath)
  /\ Advance
  /\ UNCHANGED <<sceneOnly, silenceOnly, concurrentOnly, frames, bestTime, selectCount, candidates, videoDuration, err,
                 result, idx, tempFiles, manifest>>

\* generateTimestampedStoryboard: getVideoInfo, mkdir temp_timestamped
TimelineInfo ==
  /\ pc = "artifact"
  /\ art <= Len(Plan(bestTime, InfoDuration))
  /\ CurrentArtifact.kind = "timeline"
  /\ engineLog' = Append(engineLog, InfoCmd)
  /\ \/ /\ Throw(ExecError(InfoCmd))
        /\ UNCHANGED <<files, idx, tempFiles>>
     \/ /\ files' = files \cup {TempTimelineDir}
        /\ idx' = 0
        /\ tempFiles' = <<>>
        /\ pc' = "timeline_loop"
        /\ UNCHANGED err
  /\ UNCHANGED <<sceneOnly, silenceOnly, concurrentOnly, thumbOnly, videoDuration, result, manifest>>

\* generateTimestampedStoryboard: one frame extraction
TimelineExtract ==
  /\ pc = "timeline_loop"
  /\ idx < TimelineCount
  /\ LET cmd == FrameCmd(GridTime(InfoDuration, TimelineCount, idx),
                         TempFrameFile(idx)) IN
       /\ engineLog' = Append(engineLog, cmd)
       /\ \/ /\ Throw(ExecError(cmd))
             /\ UNCHANGED <<files, idx, tempFiles>>
          \/ /\ files' = files \cup {cmd.out}
             /\ tempFiles' = Append(tempFiles, cmd.out)
             /\ idx' = idx + 1
             /\ UNCHANGED <<pc, err>>
  /\ UNCHANGED <<sceneOnly, silenceOnly, concurrentOnly, thumbOnly, videoDuration, result, manifest>>

\* generateTimestampedStoryboard: the grid command in a try block, the
\* cleanup, and the return of the path or null
TimelineGrid ==
  /\ pc = "timeline_loop"
  /\ ~(idx < TimelineCount)
  /\ engineLog' = Append(engineLog, GridCmd(TimelineFile))
  /\ \E ok \in BOOLEAN :
       /\ files' = ((files \ (Range(tempFiles) \cup {TempTimelineDir}))
                      \cup (IF ok THEN {TimelineFile} ELSE {}))
       /\ SetOutput("timestamped", IF ok THEN TimelineFile ELSE NullPath)
  /\ Advance
  /\ UNCHANGED <<sceneOnly, silenceOnly, concurrentOnly, frames, bestTime, selectCount, candidates, videoDuration, err,
                 result, idx, tempFiles, manifest>>

\* generateGIFPreview: getVideoInfo
GifInfo ==
  /\ pc = "artifact"
  /\ art <= Len(Plan(bestTime, InfoDuration))
  /\ CurrentArtifact.kind = "gif"
  /\ engineLog' = Append(engineLog, InfoCmd)
  /\ \/ Throw(ExecError(InfoCmd))
     \/ /\ pc' = "gif_build"
        /\ UNCHANGED err
  /\ UNCHANGED <<sceneOnly, silenceOnly, concurrentOnly, thumbOnly, videoDuration, files, result, idx,
                 tempFiles, manifest>>

\* generateGIFPreview: the palette command and the return of the path
GifBuild ==
  /\ pc = "gif_build"
  /\ LET a == CurrentArtifact
         cmd == GifCmd(a.time, 3 * ThumbScale, a.out) IN
       /\ engineLog' = Append(engineLog, cmd)
       /\ \/ /\ Throw(ExecError(cmd))
             /\ UNCHANGED <<files, thumbOutputs, art>>
          \/ /\ files' = files \cup {a.out}
             /\ SetOutput(a.label, a.out)
             /\ Advance
             /\ UNCHANGED err
  /\ UNCHANGED <<sceneOnly, silenceOnly, concurrentOnly, frames, bestTime, selectCount, candidates, videoDuration,
                 result, idx, tempFiles, manifest>>

\* generateAllThumbnails: return outputs
AllReturn ==
  /\ pc = "artifact"
  /\ art > Len(Plan(bestTime, InfoDuration))
  /\ result' = [kind |-> "thumbnails", outputs |-> thumbOutputs]
  /\ pc' = "done"
  /\ UNCHANGED <<sceneOnly, silenceOnly, concurrentOnly, thumbOnly, videoDuration, engineLog, files, err,
                 idx, tempFiles, manifest>>

ThumbNext ==
  \/ AllStart
  \/ BestInfo
  \/ BestEvaluate
  \/ BestPick
  \/ GenerateThumbnail
  \/ StoryboardInfo
  \/ StoryboardComplex
  \/ SimpleInfo
  \/ SimpleExtract
  \/ SimpleTile
  \/ TimelineInfo
  \/ TimelineExtract
  \/ TimelineGrid
  \/ GifInfo
  \/ GifBuild
  \/ AllReturn

ThumbSpec == ThumbInit /\ [][ThumbNext]_vars

\* -------------------------------------- findBestThumbnailFrame on its own
\* the candidate counts a caller passes, besides the default
MaxCandidates == 3
CandidateCounts == (1..MaxCandidates) \cup {Candidates}

\* a call of the exported findBestThumbnailFrame(videoPath, candidates)
BestInit ==
  /\ videoDuration \in Durations
  /\ candidates \in CandidateCounts
  /\ frames = <<>>
  /\ bestTime = 0
  /\ selectCount = 0
  /\ art = 0
  /\ thumbOutputs = <<>>
  /\ pc = "best_info"
  /\ engineLog = <<>>
  /\ files = {}
  /\ err = NoError
  /\ result = NoResult
  /\ idx = 0
  /\ tempFiles = <<>>
  /\ manifest = <<>>
  /\ SceneIdle
  /\ SilenceIdle
  /\ ConcurrentIdle

\* findBestThumbnailFrame: sort, return bestFrame.timestamp to the caller;
\* frames keeps the candidates in sampling order
BestReturn ==
  /\ pc = "best_loop"
  /\ ~(Len(frames) < candidates)
  /\ bestTime' = BestFrame(frames).timestamp
  /\ result' = [kind |-> "timestamp", timestamp |-> bestTime']
  /\ pc' = "done"
  /\ UNCHANGED <<sceneOnly, silenceOnly, concurrentOnly, frames, selectCount, candidates, art,
                 thumbOutputs, videoDuration, engineLog, files, err, idx,
                 tempFiles, manifest>>

BestNext ==
  \/ BestInfo
  \/ BestEvaluate
  \/ BestReturn

BestSpec == BestInit /\ [][BestNext]_vars

\* ------------------------------------------------------ claims: thumbnails
OutputLabels == {thumbOutputs[i].label : i \in 1..Len(thumbOutputs)}

\* C9: once the best frame is chosen, generateAllThumbnails never ends with
\* an exception because one engine call failed: it ends by returning a map
\* that has an entry (a path or null) for every label.
C9_BatchCollectsPartialFailures ==
  (art >= 1 /\ pc \in {"done", "failed"}) =>
    /\ pc = "done"
    /\ OutputLabels = Labels


\* ------------------------------------------------------- silence_detector
\* a number used in arithmetic: null counts as 0
Num(x) == IF x = Null THEN 0 ELSE x

TempAudioFile(i) == <<"temp_audio", i>>
AudioMergeList == <<"audio_merge_list", 0>>
SilenceOutput == <<"no_silence", 0>>

SilenceDetectCmd ==
  [op |-> "silencedetect", thr |-> 0, start |-> 0, dur |-> 0, out |-> NoFile]

\* what silencedetect can print for a video of duration d: up to n silences,
\* each ending before the next starts, the last one possibly without an end
\* marker; as <<silence_start values, silence_end values>>
MarkerSets(d, n) == {m \in SUBSET (0..d) : Cardinality(m) <= 2 * n}
Markers(m) ==
  LET sorted == [k \in 1..Cardinality(m) |-> NthOf(m, k)] IN
    <<[i \in 1..((Cardinality(m) + 1) \div 2) |-> sorted[2 * i - 1]],
      [i \in 1..(Cardinality(m) \div 2) |-> sorted[2 * i]]>>

\* seeded fault: only the silences that have an end marker
DetectSilenceClosedOnly(starts, ends) ==
  [i \in 1..Len(ends) |->
     [start |-> starts[i], end |-> ends[i], duration |-> ends[i] - starts[i]]]

\* detectSilence: pair the i-th start with the i-th end, or with null
DetectSilence(starts, ends) ==
  [i \in 1..Len(starts) |->
     LET end == IF i <= Len(ends) /\ ends[i] # 0 THEN ends[i] ELSE Null IN
       [start |-> starts[i],
        end |-> end,
        duration |-> IF end # Null THEN end - starts[i] ELSE Null]]

\* seeded fault: the keep interval stops at the silence start
KeepEndNoPadding(silence, pad) == Min(silence.start, Num(silence.end))

\* removeSilence: the end of the keep interval emitted before a silence
KeepEnd(silence, pad) == Min(silence.start + pad, Num(silence.end))

\* seeded fault: the cursor restarts at the silence end, without padding
NextCursorNoPadding(silence, pad) == Max(Num(silence.end), silence.start)

\* removeSilence: currentTime after a silence
NextCursor(silence, pad) == Max(Num(silence.end) - pad, silence.start)

\* removeSilence: the for loop over silenceSegments, from currentTime = cur
RECURSIVE KeepWalk(_, _, _, _, _)
KeepWalk(silences, total, pad, cur, acc) ==
  IF silences = <<>>
  THEN IF cur < total
       THEN Append(acc, [start |-> cur, end |-> total, duration |-> total - cur])
       ELSE acc
  ELSE LET silence == Head(silences) IN
         KeepWalk(Tail(silences), total, pad, NextCursor(silence, pad),
                  IF silence.start > cur
                  THEN Append(acc, [start |-> cur,
                                    end |-> KeepEnd(silence, pad),
                                    duration |-> silence.start - cur + pad])
                  ELSE acc)

\* removeSilence: audioSegments
KeepIntervals(silences, total, pad) == KeepWalk(silences, total, pad, 0, <<>>)

\* removeSilence: newDuration, the sum of the duration fields
NewDuration(segs) == SumSeq([i \in 1..Len(segs) |-> segs[i].duration])

SilenceInit ==
  /\ videoDuration \in Durations
  /\ padding \in 0..MaxPadding
  /\ silenceStarts = <<>>
  /\ silenceEnds = <<>>
  /\ silenceSegments = <<>>
  /\ audioSegments = <<>>
  /\ pc = "silence_detect"
  /\ engineLog = <<>>
  /\ files = {}
  /\ err = NoError
  /\ result = NoResult
  /\ idx = 0
  /\ tempFiles = <<>>
  /\ manifest = <<>>
  /\ SceneIdle
  /\ ThumbIdle
  /\ ConcurrentIdle

\* seeded fault: no shortcut for an empty silence list
AfterDetectNoShortcut(silences) == "silence_probe"

\* removeSilence: the branch taken on the detected list
AfterDetect(silences) ==
  IF Len(silences) = 0 THEN "silence_copy" ELSE "silence_probe"

\* removeSilence: detectSilence
SilenceDetect ==
  /\ pc = "silence_detect"
  /\ engineLog' = Append(engineLog, SilenceDetectCmd)
  /\ \/ /\ Throw(ExecError(SilenceDetectCmd))
        /\ UNCHANGED <<silenceSegments, silenceStarts, silenceEnds>>
     \/ \E m \in MarkerSets(videoDuration, MaxSilences) :
          /\ silenceStarts' = Markers(m)[1]
          /\ silenceEnds' = Markers(m)[2]
          /\ silenceSegments' = DetectSilence(silenceStarts', silenceEnds')
          /\ pc' = AfterDetect(silenceSegments')
          /\ UNCHANGED err
  /\ UNCHANGED <<sceneOnly, thumbOnly, concurrentOnly, padding, audioSegments,
                 videoDuration,
                 files, result, idx, tempFiles, manifest>>

\* removeSilence: no silence, copy the original file
SilenceCopy ==
  /\ pc = "silence_copy"
  /\ files' = files \cup {SilenceOutput}
  /\ result' = [kind |-> "outputFile", outputFile |-> SilenceOutput]
  /\ pc' = "done"
  /\ UNCHANGED <<sceneOnly, thumbOnly, concurrentOnly, silenceOnly, videoDuration, engineLog,
                 err, idx, tempFiles, manifest>>

\* removeSilence: ffprobe the duration, compute the segments to keep
SilenceProbe ==
  /\ pc = "silence_probe"
  /\ engineLog' = Append(engineLog, ProbeCmd)
  /\ \/ /\ Throw(ExecError(ProbeCmd))
        /\ UNCHANGED <<audioSegments, idx, tempFiles>>
     \/ /\ audioSegments' = KeepIntervals(silenceSegments, videoDuration, padding)
        /\ idx' = 0
        /\ tempFiles' = <<>>
        /\ pc' = "silence_loop"
        /\ UNCHANGED err
  /\ UNCHANGED <<sceneOnly, thumbOnly, concurrentOnly, padding, silenceSegments,
                 silenceStarts, silenceEnds, videoDuration,
                 files, result, manifest>>

\* the trim command of removeSilence for the i-th (0-based) keep interval
SilenceTrimCmd(segs, i) ==
  TrimCmd(segs[i + 1].start, segs[i + 1].duration, TempAudioFile(i))

\* removeSilence: one callback of audioSegments.forEach
SilenceTrim ==
  /\ pc = "silence_loop"
  /\ idx < Len(audioSegments)
  /\ LET cmd == SilenceTrimCmd(audioSegments, idx) IN
       /\ tempFiles' = Append(tempFiles, cmd.out)
       /\ engineLog' = Append(engineLog, cmd)
       /\ \/ /\ Throw(ExecError(cmd))
             /\ UNCHANGED <<files, idx>>
          \/ /\ files' = files \cup {cmd.out}
             /\ idx' = idx + 1
             /\ UNCHANGED <<pc, err>>
  /\ UNCHANGED <<sceneOnly, thumbOnly, concurrentOnly, silenceOnly, videoDuration, result,
                 manifest>>

\* removeSilence: write audio_merge_list.txt and run the concat command
SilenceConcat ==
  /\ pc = "silence_loop"
  /\ ~(idx < Len(audioSegments))
  /\ manifest' = ManifestLines(tempFiles)
  /\ engineLog' = Append(engineLog, ConcatCmd(SilenceOutput))
  /\ \/ /\ Throw(ExecError(ConcatCmd(SilenceOutput)))
        /\ files' = files \cup {AudioMergeList}
     \/ /\ files' = files \cup {AudioMergeList, SilenceOutput}
        /\ pc' = "silence_cleanup"
        /\ UNCHANGED err
  /\ UNCHANGED <<sceneOnly, thumbOnly, concurrentOnly, silenceOnly, videoDuration, result, idx,
                 tempFiles>>

\* removeSilence: cleanup, report, return outputFile
SilenceCleanup ==
  /\ pc = "silence_cleanup"
  /\ files' = files \ (Range(tempFiles) \cup {AudioMergeList})
  /\ result' = [kind |-> "outputFile", outputFile |-> SilenceOutput]
  /\ pc' = "done"
  /\ UNCHANGED <<sceneOnly, thumbOnly, concurrentOnly, silenceOnly, videoDuration, engineLog,
                 err, idx, tempFiles, manifest>>

SilenceNext ==
  \/ SilenceDetect
  \/ SilenceCopy
  \/ SilenceProbe
  \/ SilenceTrim
  \/ SilenceConcat
  \/ SilenceCleanup

SilenceSpec == SilenceInit /\ [][SilenceNext]_vars

\* ----------------------------------------------------- claims: silence
\* the keep intervals have been computed
KeepComputed == pc \in {"silence_loop", "silence_cleanup"}

AllClosed(silences) == \A i \in 1..Len(silences) : silences[i].end # Null

\* C10: for closed, time-ordered, non-overlapping silences within [0, D] and
\* any padding >= 0, each keep interval ends no later than the next begins.
C10_KeepIntervalsDisjoint ==
  (KeepComputed /\ AllClosed(silenceSegments)) =>
    \A i \in 1..(Len(audioSegments) - 1) :
      audioSegments[i].end <= audioSegments[i + 1].start

\* the last detected silence has no end marker
LastOpen(silences) ==
  Len(silences) > 0 /\ silences[Len(silences)].end = Null

\* the same silences with the open end of the last one set to total
CloseLast(silences, total) ==
  [i \in 1..Len(silences) |->
     IF silences[i].end = Null
     THEN [start |-> silences[i].start,
           end |-> total,
           duration |-> total - silences[i].start]
     ELSE silences[i]]

\* C11: when the last silence is open-ended, the keep intervals are those
\* computed for the same list with that silence closed at totalDuration, so
\* nothing after its start (plus padding) is kept.
C11_OpenEndedAsTotalDuration ==
  (KeepComputed /\ LastOpen(silenceSegments)) =>
    audioSegments =
      KeepIntervals(CloseLast(silenceSegments, videoDuration),
                    videoDuration, padding)

SilenceTotal(silences) ==
  SumSeq([i \in 1..Len(silences) |-> silences[i].duration])

PositiveDurations(segs) == \A i \in 1..Len(segs) : segs[i].duration > 0

\* C12 as stated: for closed silences within [0, D] and any padding >= 0, the
\* keep durations sum to D - sum(silence durations) + 2 * padding * k, where
\* k counts internal silence boundaries (whichever boundaries are taken as
\* internal, k is between 0 and twice the number of silences), and every
\* keep duration is positive.
C12_KeepDurationSum ==
  (KeepComputed /\ AllClosed(silenceSegments)) =>
    /\ \E k \in 0..(2 * Len(silenceSegments)) :
         NewDuration(audioSegments) =
           videoDuration - SilenceTotal(silenceSegments) + 2 * padding * k
    /\ PositiveDurations(audioSegments)

\* every silence lasts at least the padding
NoShortSilence(silences, pad) ==
  \A i \in 1..Len(silences) : silences[i].duration >= pad

\* the number of times the padding is added: once per silence boundary,
\* except for a silence start at time 0
PaddedBoundaries(silences) ==
  2 * Len(silences) - (IF silences[1].start = 0 THEN 1 ELSE 0)

\* C12 amended: for closed silences within [0, D], each lasting at least the
\* padding, the keep durations sum to D - sum(silence durations) + padding *
\* (number of silence boundaries other than a silence start at 0), and every
\* keep duration is positive.
C12_KeepDurationSumPerBoundary ==
  (KeepComputed /\ AllClosed(silenceSegments)
     /\ NoShortSilence(silenceSegments, padding)) =>
    /\ NewDuration(audioSegments) =
         videoDuration - SilenceTotal(silenceSegments)
           + padding * PaddedBoundaries(silenceSegments)
    /\ PositiveDurations(audioSegments)

\* two closed silences, the first starting at 0, with a positive padding
C12_Witness ==
  /\ KeepComputed
  /\ AllClosed(silenceSegments)
  /\ NoShortSilence(silenceSegments, padding)
  /\ Len(silenceSegments) = 2
  /\ silenceSegments[1].start = 0
  /\ padding > 0
  /\ Len(audioSegments) = 2

\* detection succeeded and found no silence
DetectedNone ==
  /\ pc \notin {"silence_detect", "failed"}
  /\ silenceSegments = <<>>

\* C13: when detection returns no silence, removeSilence issues no engine
\* command besides the detection, creates no temporary file or manifest, and
\* ends having copied the input to the output file.
C13_NoSilenceIsPlainCopy ==
  DetectedNone =>
    /\ engineLog = <<SilenceDetectCmd>>
    /\ tempFiles = <<>>
    /\ manifest = <<>>
    /\ files \subseteq {SilenceOutput}
    /\ pc \in {"silence_copy", "done"}
    /\ pc = "done" =>
         /\ files = {SilenceOutput}
         /\ result = [kind |-> "outputFile", outputFile |-> SilenceOutput]

C13_Witness ==
  /\ DetectedNone
  /\ pc = "done"
  /\ SilenceOutput \in files

\* ------------------------------------------- claims: findBestThumbnailFrame
\* findBestThumbnailFrame has returned
BestReturned == pc = "done" /\ result.kind = "timestamp"

\* t is 0.1 * d + i * (0.8 * d / n)
IsCandidate(t, d, n, i) == 10 * n * t = n * d + 8 * i * d

\* C14: for every D > 0 and n >= 1 the returned timestamp is one of the n
\* sampled candidates 0.1*D + i*(0.8*D/n), 0 <= i < n, and lies within
\* [0.1*D, 0.9*D].
C14_BestIsSampledCandidate ==
  BestReturned =>
    /\ \E i \in 0..(candidates - 1) :
         IsCandidate(result.timestamp, InfoDuration, candidates, i)
    /\ 10 * result.timestamp >= InfoDuration
    /\ 10 * result.timestamp <= 9 * InfoDuration

\* a candidate other than the first one is returned
C14_Witness ==
  /\ BestReturned
  /\ candidates > 1
  /\ 10 * result.timestamp > InfoDuration

\* the indices (1-based, in sampling order) of the frames with the top score
TopScorers(fs) ==
  {i \in 1..Len(fs) : \A j \in 1..Len(fs) : fs[j].score <= fs[i].score}

LowestOf(S) == CHOOSE i \in S : \A j \in S : i <= j

\* C15: the returned timestamp is that of the earliest-sampled candidate
\* among those with the maximum score, so it is determined by the sampled
\* scores; when all scores are equal it is the first candidate, 0.1*D.
C15_EarliestOfTiedCandidates ==
  BestReturned =>
    /\ result.timestamp = frames[LowestOf(TopScorers(frames))].timestamp
    /\ IsCandidate(result.timestamp, InfoDuration, candidates,
                   LowestOf(TopScorers(frames)) - 1)
    /\ (TopScorers(frames) = 1..Len(frames)) =>
         10 * result.timestamp = InfoDuration

\* several candidates, not all, share the maximum score, and the earliest
\* of them is not the first candidate
C15_Witness ==
  /\ BestReturned
  /\ Cardinality(TopScorers(frames)) >= 2
  /\ TopScorers(frames) # 1..Len(frames)
  /\ LowestOf(TopScorers(frames)) > 1

\* findBestThumbnailFrame(videoPath, 1) has returned
SingleCandidateReturned == BestReturned /\ candidates = 1

\* C16 as stated: with one candidate the returned timestamp is the sampled
\* one whatever its score, and it is the midpoint 0.5*D of the 10%-90%
\* window.
C16_SingleCandidateIsMidpoint ==
  SingleCandidateReturned =>
    /\ result.timestamp = frames[1].timestamp
    /\ 2 * result.timestamp = InfoDuration

\* C16 amended: with one candidate the returned timestamp is the sampled
\* one whatever its score, and it is the start 0.1*D of the 10%-90% window.
C16_SingleCandidateIsWindowStart ==
  SingleCandidateReturned =>
    /\ Len(frames) = 1
    /\ result.timestamp = frames[1].timestamp
    /\ 10 * result.timestamp = InfoDuration

\* one candidate, scored with the base score after a failed probe
C16_Witness ==
  /\ SingleCandidateReturned
  /\ frames[1].score = BaseScore(InfoDuration)

\* ------------------------------ two runs of one tool in one working directory
\* Two processes run mergeScenes (index.js) or removeSilence
\* (silence_detector.js) at the same time with the same current directory.
\* Each file-system call and each engine command is one step of its run.
Runs == {1, 2}
Tools == {"merge", "silence"}

\* validSegments.length / audioSegments.length of a run
ClipCounts == 1..MaxScenes

\* temp_scene_<i>.mp4 / temp_audio_<i>.mp4
TempName(t, i) == IF t = "merge" THEN TempSceneFile(i) ELSE TempAudioFile(i)

\* merge_list.txt / audio_merge_list.txt
ManifestName(t) == IF t = "merge" THEN MergeList ELSE AudioMergeList

\* the outputFile argument of run r
RunOutput(r) == <<"output", r>>

\* a file written by run r; lines is the content of a manifest
WriteFile(d, name, r, lines) ==
  [f \in DOMAIN d \cup {name} |->
     IF f = name THEN [writer |-> r, lines |-> lines] ELSE d[f]]

\* if (fs.existsSync(f)) fs.unlinkSync(f)
UnlinkFile(d, name) == [f \in DOMAIN d \ {name} |-> d[f]]

\* the concat demuxer can open the manifest and every file it lists
ManifestReadable(d, t) ==
  /\ ManifestName(t) \in DOMAIN d
  /\ \A f \in Range(d[ManifestName(t)].lines) : f \in DOMAIN d

ConcurrentInit ==
  /\ tool \in Tools
  /\ runs = [r \in Runs |->
               [pc |-> IF tool = "silence" THEN "detect" ELSE "probe",
                count |-> 0, idx |-> 0, tempFiles |-> <<>>]]
  /\ disk = <<>>
  /\ videoDuration = 1
  /\ pc = "concurrent"
  /\ engineLog = <<>>
  /\ files = {}
  /\ err = NoError
  /\ result = NoResult
  /\ idx = 0
  /\ tempFiles = <<>>
  /\ manifest = <<>>
  /\ SceneIdle
  /\ ThumbIdle
  /\ SilenceIdle

\* run r moves to pc p with the given locals
RunStep(r, p, i, temps) ==
  runs' = [runs EXCEPT ![r] = [@ EXCEPT !.pc = p, !.idx = i, !.tempFiles = temps]]

RunFails(r) == runs' = [runs EXCEPT ![r].pc = "failed"]

\* removeSilence: detectSilence
RunDetect(r) ==
  /\ runs[r].pc = "detect"
  /\ \/ RunFails(r)
     \/ runs' = [runs EXCEPT ![r].pc = "probe"]
  /\ UNCHANGED disk

\* mergeScenes: getDuration and the filter; removeSilence: ffprobe and the
\* keep intervals
RunProbe(r) ==
  /\ runs[r].pc = "probe"
  /\ \/ RunFails(r)
     \/ \E n \in ClipCounts :
          runs' = [runs EXCEPT ![r] = [pc |-> "loop", count |-> n, idx |-> 0,
                                       tempFiles |-> <<>>]]
  /\ UNCHANGED disk

\* one forEach callback: trim clip idx into the temporary file (ffmpeg -y
\* replaces a file of that name); removeSilence pushes the name before the
\* command, mergeScenes after it
RunTrim(r) ==
  /\ runs[r].pc = "loop"
  /\ runs[r].idx < runs[r].count
  /\ LET name == TempName(tool, runs[r].idx) IN
       \/ /\ disk' = WriteFile(disk, name, r, <<>>)
          /\ RunStep(r, "loop", runs[r].idx + 1, Append(runs[r].tempFiles, name))
       \/ /\ UNCHANGED disk
          /\ RunStep(r, "failed", runs[r].idx,
                     IF tool = "silence" THEN Append(runs[r].tempFiles, name)
                     ELSE runs[r].tempFiles)

\* fs.writeFileSync of the manifest
RunWriteManifest(r) ==
  /\ runs[r].pc = "loop"
  /\ ~(runs[r].idx < runs[r].count)
  /\ disk' = WriteFile(disk, ManifestName(tool), r, runs[r].tempFiles)
  /\ RunStep(r, "concat", runs[r].idx, runs[r].tempFiles)

\* the concat command, reading the manifest that is on disk
RunConcat(r) ==
  /\ runs[r].pc = "concat"
  /\ \/ /\ ManifestReadable(disk, tool)
        /\ disk' = WriteFile(disk, RunOutput(r), r, <<>>)
        /\ RunStep(r, "cleanup", 0, runs[r].tempFiles)
     \/ /\ UNCHANGED disk
        /\ RunFails(r)

\* cleanup: one callback of tempFiles.forEach
RunUnlinkTemp(r) ==
  /\ runs[r].pc = "cleanup"
  /\ runs[r].idx < Len(runs[r].tempFiles)
  /\ disk' = UnlinkFile(disk, runs[r].tempFiles[runs[r].idx + 1])
  /\ RunStep(r, "cleanup", runs[r].idx + 1, runs[r].tempFiles)

\* cleanup: the manifest; return outputFile
RunUnlinkManifest(r) ==
  /\ runs[r].pc = "cleanup"
  /\ ~(runs[r].idx < Len(runs[r].tempFiles))
  /\ disk' = UnlinkFile(disk, ManifestName(tool))
  /\ RunStep(r, "done", runs[r].idx, runs[r].tempFiles)

ConcurrentUnchanged ==
  UNCHANGED <<sceneVars, thumbOnly, silenceOnly, tool>>

ConcurrentNext ==
  \/ \E r \in Runs : RunDetect(r) /\ ConcurrentUnchanged
  \/ \E r \in Runs : RunProbe(r) /\ ConcurrentUnchanged
  \/ \E r \in Runs : RunTrim(r) /\ ConcurrentUnchanged
  \/ \E r \in Runs : RunWriteManifest(r) /\ ConcurrentUnchanged
  \/ \E r \in Runs : RunConcat(r) /\ ConcurrentUnchanged
  \/ \E r \in Runs : RunUnlinkTemp(r) /\ ConcurrentUnchanged
  \/ \E r \in Runs : RunUnlinkManifest(r) /\ ConcurrentUnchanged

ConcurrentSpec == ConcurrentInit /\ [][ConcurrentNext]_vars

\* ------------------------------------------------ claims: concurrent runs
\* run r has written the manifest and not yet removed it
HoldsManifest(r) == runs[r].pc \in {"concat", "cleanup"}

\* the manifest and the clips run r is about to concatenate are its own
OwnFilesOnDisk(r) ==
  /\ ManifestName(tool) \in DOMAIN disk
  /\ disk[ManifestName(tool)].writer = r
  /\ \A f \in Range(runs[r].tempFiles) : f \in DOMAIN disk /\ disk[f].writer = r

\* C17: two concurrent runs in one working directory never use the same
\* temporary clip name or the same manifest name, and what a run concatenates
\* is the manifest and the clips it wrote itself.
C17_TempNamesDisjoint ==
  (tool # "none") =>
    \A r \in Runs :
      /\ \A q \in Runs \ {r} :
           /\ Range(runs[r].tempFiles) \cap Range(runs[q].tempFiles) = {}
           /\ ~(HoldsManifest(r) /\ HoldsManifest(q))
      /\ runs[r].pc = "concat" => OwnFilesOnDisk(r)

\* -------------------------------------------------- claims: engine failures
\* C18: a failed engine call is never swallowed and no default value stands
\* in for its result: findBestThumbnailFrame returns a timestamp only when
\* every probe of its frame scoring succeeded, so every candidate carries the
\* score computed from the probed duration.
C18_FailedProbeSurfaces ==
  BestReturned =>
    \A i \in 1..Len(frames) :
      frames[i].score = FrameScore(frames[i].timestamp, InfoDuration)

\* ------------------------------------------------ claims: temporary files
\* the kinds of the temporary files, manifests and directories of
\* removeSilence, generateSimpleStoryboard and generateTimestampedStoryboard
TempKinds ==
  {TempAudioFile(0)[1], AudioMergeList[1], TempThumbDir[1], TempThumbFile(0)[1],
   TempTimelineDir[1], TempFrameFile(0)[1]}

TempLeft == {f \in files : f[1] \in TempKinds}

\* C19: when removeSilence or a storyboard generation terminates, by a return
\* or by the error of a failed trim, extraction, concatenate or grid command,
\* none of its temporary files, manifests or directories is left on disk.
C19_NoTempLeftAtTermination ==
  pc \in {"done", "failed"} => TempLeft = {}

\* ------------------------------------------------- claims: trimmed segments
\* C20: every segment that splitByScenes or mergeScenes hands to a trim
\* command has start < end (a positive duration), whatever list of change
\* points was detected: repeated, 0, D or out-of-order timestamps are
\* rejected or dropped first.
C20_TrimmedSegmentsNonEmpty ==
  /\ \A i \in 1..Len(SplitTrims) : SplitTrims[i].dur > 0
  /\ \A i \in 1..Len(MergeTrims) : MergeTrims[i].dur > 0

\* --------------------------------------------- claims: keep interval shape
\* C21: for every ordered silence list, closed or with an open-ended last
\* silence, and every padding >= 0, no keep interval has end < start or a
\* negative duration.
C21_KeepIntervalsWellFormed ==
  KeepComputed =>
    \A i \in 1..Len(audioSegments) :
      /\ audioSegments[i].end >= audioSegments[i].start
      /\ audioSegments[i].duration >= 0

\* ---------------------------------------------- claims: generateAllThumbnails
\* the extraction commands issued so far for the still image out
StillCmds(out) ==
  SelectSeq(engineLog, LAMBDA c : c.op = "frame" /\ c.out = out)

BestStills == {ThumbFile(1920), ThumbFile(1280), ThumbFile(640)}

\* C22: generateAllThumbnails selects the best frame exactly once; the three
\* stills of widths 1920, 1280 and 640 are each extracted at that timestamp,
\* and no later sub-artifact, the first-frame still at timestamp 0 included,
\* runs another selection.
C22_BestFrameSelectedOnce ==
  /\ selectCount <= 1
  /\ art >= 1 => selectCount = 1
  /\ \A out \in BestStills :
       /\ Len(StillCmds(out)) <= 1
       /\ \A i \in 1..Len(StillCmds(out)) : StillCmds(out)[i].start = bestTime
  /\ \A i \in 1..Len(StillCmds(FirstFile)) : StillCmds(FirstFile)[i].start = 0

\* a complete batch: all stills written, the first frame after the others
C22_Witness ==
  /\ pc = "done"
  /\ selectCount = 1
  /\ BestStills \subseteq files
  /\ FirstFile \in files
  /\ LastFile \in files
  /\ bestTime > 0

\* ------------------------------------------ evaluateFrameQuality on its own
\* the score NaN; every number compares false with it
NaN == -1

\* scores for a probed duration d are multiples of 1/d; of 1 when d is 0
ScoreScale(d) == IF d = 0 THEN 1 ELSE d

\* evaluateFrameQuality(videoPath, t) when getVideoInfo reports duration d
\* (0 when the duration line does not parse) or throws (ok = FALSE).
\* With d = 0 the division t / d is NaN for t = 0, and so is the score;
\* for t > 0 it is Infinity, the bonus -Infinity and the clamped score 0.
EvaluateFrameQuality(t, d, ok) ==
  IF ~ok THEN BaseScore(ScoreScale(d))
  ELSE IF d = 0 THEN (IF t = 0 THEN NaN ELSE 0)
  ELSE FrameScore(t, d)

\* timestamps in tenths of the scene time unit, inside and outside the video
ScoreTimes == {k * (ThumbScale \div 10) : k \in 0..(10 * MaxDuration + 10)}

\* a call evaluateFrameQuality(videoPath, timestamp)
ScoreInit ==
  /\ videoDuration \in 0..MaxDuration
  /\ pc = "score"
  /\ engineLog = <<>>
  /\ files = {}
  /\ err = NoError
  /\ result = NoResult
  /\ idx = 0
  /\ tempFiles = <<>>
  /\ manifest = <<>>
  /\ SceneIdle
  /\ ThumbIdle
  /\ SilenceIdle
  /\ ConcurrentIdle

\* evaluateFrameQuality: the probe inside the try block, the score returned
ScoreEvaluate ==
  /\ pc = "score"
  /\ engineLog' = Append(engineLog, InfoCmd)
  /\ \E t \in ScoreTimes, ok \in BOOLEAN :
       /\ frames' = <<[timestamp |-> t,
                       score |-> EvaluateFrameQuality(t, InfoDuration, ok)]>>
       /\ result' = [kind |-> "score", probed |-> ok]
  /\ pc' = "done"
  /\ UNCHANGED <<sceneOnly, silenceOnly, concurrentOnly, bestTime, selectCount,
                 candidates, art, thumbOutputs, videoDuration, files, err, idx,
                 tempFiles, manifest>>

ScoreNext == ScoreEvaluate

ScoreSpec == ScoreInit /\ [][ScoreNext]_vars

\* ------------------------------------------- claims: evaluateFrameQuality
\* C23: for every timestamp and every probed video duration, with the
\* timestamp inside or outside the 10%-90% window and with a failed probe,
\* the score evaluateFrameQuality returns is a number within [0, 100].
C23_ScoreWithinRange ==
  (pc = "done" /\ result.kind = "score") =>
    /\ frames[1].score # NaN
    /\ frames[1].score >= 0
    /\ frames[1].score <= 100 * ScoreScale(InfoDuration)

\* ------------------------------------------------ claims: reference walk
\* the cursor of the reference walk after the first k silences
RefCursor(silences, pad, k) ==
  IF k = 0 THEN 0
  ELSE Max(silences[k].end - pad, silences[k].start)

\* the silences before which the reference walk emits a keep interval
RefEmitting(silences, pad) ==
  SelectSeq([k \in 1..Len(silences) |-> k],
            LAMBDA k : silences[k].start > RefCursor(silences, pad, k - 1))

\* the reference walk: <<start, end>> of every keep interval, in order
RefWalk(silences, total, pad) ==
  LET emitting == RefEmitting(silences, pad)
      last == RefCursor(silences, pad, Len(silences))
  IN [j \in 1..Len(emitting) |->
        <<RefCursor(silences, pad, emitting[j] - 1),
          Min(silences[emitting[j]].start + pad, silences[emitting[j]].end)>>]
     \o (IF last < total THEN <<<<last, total>>>> ELSE <<>>)

\* <<start, end>> of the keep intervals of removeSilence
Bounds(segs) == [i \in 1..Len(segs) |-> <<segs[i].start, segs[i].end>>]

ClosedSilence(a, b) == [start |-> a, end |-> b, duration |-> b - a]

\* C24: for closed silence lists the keep intervals [start, end) of
\* removeSilence are those of the reference walk (cursor 0; before each
\* silence with start > cursor emit [cursor, min(start + padding, end)); then
\* cursor = max(end - padding, start); finally [cursor, D) iff cursor < D).
\* In tenths of a second, silences [0, 20] and [100, 104] with D = 200 and
\* padding 1 give [19, 101) and [103, 200).
C24_KeepIntervalsMatchReference ==
  /\ (KeepComputed /\ AllClosed(silenceSegments)) =>
       Bounds(audioSegments) = RefWalk(silenceSegments, videoDuration, padding)
  /\ Bounds(KeepIntervals(<<ClosedSilence(0, 20), ClosedSilence(100, 104)>>,
                          200, 1))
       = <<<<19, 101>>, <<103, 200>>>>

\* two closed silences, the first at the start of the video, padded
C24_Witness ==
  /\ KeepComputed
  /\ AllClosed(silenceSegments)
  /\ Len(silenceSegments) = 2
  /\ silenceSegments[1].start = 0
  /\ padding > 0
  /\ Len(audioSegments) = 2
  /\ audioSegments[1].start > 0
  /\ audioSegments[2].end = videoDuration

\* C25: every keep interval satisfies duration = end - start, so the trim
\* of length duration never runs past the recorded end, also when a silence
\* is shorter than the padding.
C25_DurationIsEndMinusStart ==
  KeepComputed =>
    /\ \A i \in 1..Len(audioSegments) :
         audioSegments[i].duration = audioSegments[i].end - audioSegments[i].start
    /\ \A i \in 1..Len(engineLog) :
         engineLog[i].op = "trim" =>
           \E j \in 1..Len(audioSegments) :
             /\ engineLog[i].start = audioSegments[j].start
             /\ engineLog[i].start + engineLog[i].dur <= audioSegments[j].end

\* ------------------------------------------- claims: trims before concat
\* the trims into temporary clips of the given kind among the first n
\* commands of the log
TempTrimsBefore(kind, n) ==
  SelectSeq(SubSeq(engineLog, 1, n),
            LAMBDA c : c.op = "trim" /\ c.out[1] = kind)

\* at every concat command into out in the log: one trim per segment of segs
\* came before it, in segment order, into the clips <<kind, 0>>, <<kind, 1>>,
\* ...; no such trim comes after it; the manifest lists those clips in that
\* order
ConcatAfterAllTrims(segs, kind, out) ==
  \A k \in 1..Len(engineLog) :
    engineLog[k] = ConcatCmd(out) =>
      LET trims == TempTrimsBefore(kind, k - 1) IN
        /\ Len(trims) = Len(segs)
        /\ \A i \in 1..Len(segs) :
             trims[i] = TrimCmd(segs[i].start, segs[i].duration, <<kind, i - 1>>)
        /\ TempTrimsBefore(kind, Len(engineLog)) = trims
        /\ manifest = [i \in 1..Len(segs) |-> <<kind, i - 1>>]
        /\ (k = Len(engineLog)
              /\ pc \in {"merge_cleanup", "silence_cleanup", "failed"}) =>
             Range(manifest) \subseteq files

C27_OneIntervalPerStartMarker ==
  /\ Len(silenceSegments) = Len(silenceStarts)
  /\ Len(silenceEnds) <= Len(silenceStarts)
  /\ Len(silenceStarts) <= Len(silenceEnds) + 1
  /\ \A i \in 1..Len(silenceSegments) :
       /\ silenceSegments[i].start = silenceStarts[i]
       /\ i <= Len(silenceEnds) =>
            /\ silenceSegments[i].end = silenceEnds[i]
            /\ silenceSegments[i].duration = silenceEnds[i] - silenceStarts[i]
       /\ i > Len(silenceEnds) =>
            /\ i = Len(silenceStarts)
            /\ silenceSegments[i].end = Null
            /\ silenceSegments[i].duration = Null

\* two start markers and one end marker were parsed
C27_Witness ==
  /\ pc = "silence_probe"
  /\ Len(silenceStarts) = 2
  /\ Len(silenceEnds) = 1
  /\ silenceSegments[1].end # Null
  /\ silenceSegments[2].end = Null

\* C28: splitByScenes called with an empty change-point list issues exactly
\* one trim, covering [0, D), and returns exactly one clip path; the only
\* ways it can fail are a failed probe or a failed trim command, never the
\* absence of scenes.
SplitOfNoScenes ==
  /\ splitArg = <<>>
  /\ \/ pc \in {"split_loop", "auto_merge"}
     \/ command = "split" /\ pc \in {"done", "failed"} /\ Len(Scans) >= 1
          /\ err.kind # "VideoNotFound" /\ engineLog[Len(engineLog)].op # "scan"
C28_NoScenesGivesOneClip ==
  SplitOfNoScenes =>
    /\ Len(SplitTrims) <= 1
    /\ \A k \in 1..Len(SplitTrims) :
         /\ SplitTrims[k].start = 0
         /\ SplitTrims[k].dur = videoDuration
         /\ SplitTrims[k].out = SceneFile(1)
    /\ (pc \in {"done", "auto_merge"}) =>
         /\ Len(SplitTrims) = 1
         /\ clips = <<SceneFile(1)>>
         /\ SceneFile(1) \in files
    /\ (pc = "done") => result = [kind |-> "clips", clips |-> <<SceneFile(1)>>]
    /\ (pc = "failed") =>
         /\ err.kind = "CommandFailed"
         /\ err.cmd \in {ProbeCmd, SplitTrimCmd(<<0, videoDuration>>, 0)}
         /\ engineLog[Len(engineLog)] = err.cmd
C28_Witness ==
  /\ command = "split"
  /\ pc = "done"
  /\ splitArg = <<>>
  /\ Len(SplitTrims) = 1
  /\ Len(result.clips) = 1

\* the 0-based indices of the candidates closest to the midpoint d/2
ClosestToMidpoint(d, n) ==
  {i \in 0..(n - 1) :
     \A j \in 0..(n - 1) :
       Abs(2 * CandidateTime(d, n, i) - d) <= Abs(2 * CandidateTime(d, n, j) - d)}

\* every probe of evaluateFrameQuality succeeded
AllProbed ==
  \A i \in 1..Len(frames) :
    frames[i].score = FrameScore(frames[i].timestamp, InfoDuration)

\* the returned timestamp is the earliest candidate closest to d/2, which
\* is 0.5*d with the default number of candidates
MidpointCandidateReturned ==
  /\ result.timestamp =
       CandidateTime(InfoDuration, candidates,
                     LowestOf(ClosestToMidpoint(InfoDuration, candidates)))
  /\ (candidates = Candidates) => 2 * result.timestamp = InfoDuration

\* C29: findBestThumbnailFrame returns the sampled candidate closest to the
\* midpoint D/2 of the video, the earlier one when two are equally close;
\* with the default 10 candidates this is 0.5*D.
C29_BestIsClosestToMidpoint == BestReturned => MidpointCandidateReturned

\* the same when no probe of evaluateFrameQuality failed
BestIsClosestWhenAllProbed ==
  (BestReturned /\ AllProbed) => MidpointCandidateReturned

\* autoEdit is past the return of its splitByScenes call
AutoSplitReturned == command = "auto" /\ clips # <<>>

\* the commands of the merge step: trims to temporary clips and the concat
IsMergeWork(c) ==
  \/ c.op = "trim" /\ c.out[1] = "temp_scene"
  \/ c.op = "concat"

\* C30: autoEdit completes the split step before it starts the merge step;
\* when the merge step fails (every segment shorter than minDuration, a
\* failed probe, trim or concatenate), autoEdit returns no summary record,
\* the error propagates, and every scene clip the split step wrote is
\* still on disk.
C30_MergeFailureKeepsSceneClips ==
  (command = "auto") =>
    /\ \A i \in 1..Len(engineLog) : \A j \in 1..Len(engineLog) :
         (IsMergeWork(engineLog[i]) /\ engineLog[j].op = "trim"
            /\ engineLog[j].out[1] = "scene") => j < i
    /\ (pc \in {"merge", "merge_loop", "merge_cleanup", "auto_return"}) =>
         AutoSplitReturned
    /\ AutoSplitReturned =>
         /\ Len(clips) = Len(timestamps) + 1
         /\ Len(SplitTrims) = Len(clips)
         /\ \A k \in 1..Len(clips) :
              /\ clips[k] = SceneFile(k)
              /\ clips[k] \in files
         /\ OutputDir \in files
         /\ (pc = "failed") =>
              /\ result = NoResult
              /\ err # NoError
              /\ \/ err = NoValidSegmentsError /\ AllSegmentsShort
                 \/ err.kind = "CommandFailed"
                      /\ (err.cmd = ProbeCmd \/ IsMergeWork(err.cmd))
    /\ (pc = "done") =>
         /\ AutoSplitReturned
         /\ result.kind = "summary"
         /\ ~AllSegmentsShort
    /\ (result.kind = "summary") => pc = "done"

\* a trim of the merge step failed after the split step wrote three clips
C30_Witness ==
  /\ command = "auto"
  /\ pc = "failed"
  /\ err.kind = "CommandFailed"
  /\ err.cmd.out[1] = "temp_scene"
  /\ Len(clips) = 3
  /\ \A k \in 1..3 : SceneFile(k) \in files
  /\ result = NoResult


====
